---- MODULE Spec2Model ----
(***************************************************************************)
(* Model of the paytos transaction service (services/transaction module):  *)
(* createPendingTransaction, confirmTransaction, createTransaction,        *)
(* executeTransaction, transferSol / transferToken, updateUserBalances.    *)
(*                                                                         *)
(* Every call of an async function is a process held in a call slot; one   *)
(* action is one run of the JavaScript between two awaits, so the actions  *)
(* of different calls interleave exactly where the event loop can switch.  *)
(* The store (MongoDB collections) is users / txs / pendings, the          *)
(* settlement layer is chain.  Store writes are assumed to be accepted.    *)
(***************************************************************************)
EXTENDS Integers, Sequences, FiniteSets, TLC

VARIABLES users, chain, txs, pendings, now, calls, dispatched, settled, origin,
          started, failedPin, pinResult, wrongStreak

\* PIN verification: failed-attempt counter of each identity, the latest
\* authorization attempt, and (history) the wrong attempts in a row
pinVars == <<failedPin, pinResult, wrongStreak>>

vars == <<users, chain, txs, pendings, now, calls, dispatched, settled, origin,
          started, pinVars>>

----------------------------------------------------------------------------
(* Universe and bounds *)

Phones == {"p1", "p2"}
Tokens == {"SOL", "USDC"}
Calls == {1, 2}
Codes == {"ab"}
InputCodes == {"ab", "CD"}
TickSteps == {6}
Senders == {"p1"}

Amounts == {1}
InitBalances == {1}

MaxTx == 2
MaxPending == 2
MaxTime == 6
MaxCalls == 2
MaxAttempts == 7

TTL_MINUTES == 5
PIN_THRESHOLD == 5

supportedTokens == <<"USDC">>

----------------------------------------------------------------------------
(* Pure helpers *)

\* confirmation codes are upper-cased without change
ToUpperCase_identity(s) == s

\* String.prototype.toUpperCase on the strings of the model
ToUpperCase(s) ==
    CASE s = "ab" -> "AB"
      [] s = "aB" -> "AB"
      [] s = "Ab" -> "AB"
      [] s = "a1" -> "A1"
      [] s = "cd" -> "CD"
      [] OTHER -> s

Min(S) == CHOOSE x \in S : \A y \in S : x <= y

\* User.findOne({ phoneNumber }): first matching document, 0 when none
UserFindOne(phone) ==
    LET m == {i \in 1..Len(users) : users[i].phoneNumber = phone}
    IN IF m = {} THEN 0 ELSE Min(m)

\* the query without the senderPhone field
PendingFindOne_anySender(phone, code) ==
    LET m == {i \in 1..Len(pendings) :
                 /\ pendings[i].live
                 /\ pendings[i].confirmationCode = code}
    IN IF m = {} THEN 0 ELSE Min(m)

\* PendingTransaction.findOne({ senderPhone, confirmationCode })
PendingFindOne(phone, code) ==
    LET m == {i \in 1..Len(pendings) :
                 /\ pendings[i].live
                 /\ pendings[i].senderPhone = phone
                 /\ pendings[i].confirmationCode = code}
    IN IF m = {} THEN 0 ELSE Min(m)

IdleCall ==
    [pc |-> "idle", op |-> "none", pendingTx |-> 0, transaction |-> 0,
     sender |-> 0, recipient |-> 0, error |-> "none", seen |-> "none",
     sent |-> FALSE, who |-> "none", sol |-> 0, tok |-> 0]

MaxUsers == 1 + MaxTx

ZeroBalances == [t \in Tokens |-> 0]

\* transactions an in-flight confirm will still insert
Reserved ==
    Cardinality({c \in Calls : /\ calls[c].op = "confirm"
                               /\ calls[c].transaction = 0
                               /\ calls[c].pc # "done"})

\* a free call slot: never used, or holding the result of a call that returned;
\* slots are interchangeable, so a call takes the first free one
Returned(c) == calls[c].pc \in {"idle", "done"}

Free(c) ==
    /\ Returned(c)
    /\ \A d \in Calls : Returned(d) => c <= d
    /\ started < MaxCalls

NoAttempt == [n |-> 0, phone |-> "none", pinOk |-> FALSE, result |-> "none"]

PinInit ==
    /\ failedPin = [p \in Phones |-> 0]
    /\ pinResult = NoAttempt
    /\ wrongStreak = [p \in Phones |-> 0]

----------------------------------------------------------------------------
Init ==
    /\ PinInit
    /\ users = << [phoneNumber |-> "p1", isVerified |-> TRUE,
                   tokenBalances |-> [t \in Tokens |-> Min(InitBalances)]] >>
    /\ chain = [u \in 1..MaxUsers |->
                  IF u = 1 THEN [t \in Tokens |-> Min(InitBalances)] ELSE ZeroBalances]
    /\ txs = << >>
    /\ pendings = << >>
    /\ now = 0
    /\ calls = [c \in Calls |-> IdleCall]
    /\ dispatched = << >>
    /\ settled = << >>
    /\ origin = << >>
    /\ started = 0

----------------------------------------------------------------------------
(* Clock: minutes.  Only createPendingTransaction reads it, so before the   *)
(* first proposal is stored its value is immaterial: time starts there.     *)

Tick ==
    /\ pendings # << >>
    /\ \E d \in TickSteps : /\ now + d <= MaxTime
                            /\ now' = now + d
    /\ UNCHANGED <<users, chain, txs, pendings, calls, dispatched, settled, origin, started, pinVars>>

----------------------------------------------------------------------------
(* createPendingTransaction.  random is Math.random().toString(36)          *)
(* .substring(2, 8), confirmationCode its upper-cased form.                 *)

createPendingTransaction(senderPhone, recipientPhone, amount, token, random) ==
    /\ Len(pendings) < MaxPending
    /\ pendings' = Append(pendings,
          [senderPhone |-> senderPhone, recipientPhone |-> recipientPhone,
           amount |-> amount, token |-> token,
           confirmationCode |-> ToUpperCase(random),
           expiresAt |-> now + TTL_MINUTES, live |-> TRUE, cancelled |-> FALSE])
    /\ UNCHANGED <<users, chain, txs, now, calls, dispatched, settled, origin, started, pinVars>>

----------------------------------------------------------------------------
(* createTransaction, run inside confirmTransaction *)

Throw(call, msg) ==
    [IdleCall EXCEPT !.pc = "done", !.pendingTx = call.pendingTx,
                     !.transaction = call.transaction, !.seen = call.seen,
                     !.sent = call.sent, !.error = msg]

\* the balance check left out
InsufficientBalance_unchecked(s, token, amount) == FALSE

\* sender.tokenBalances[token] < amount
InsufficientBalance(s, token, amount) ==
    users[s].tokenBalances[token] < amount

\* User.findOne(sender), the balance check
createTransaction_sender(c) ==
    /\ calls[c].pc = "ct_sender"
    /\ LET p == pendings[calls[c].pendingTx]
           s == UserFindOne(p.senderPhone)
       IN calls' = [calls EXCEPT ![c] =
             IF s = 0 THEN Throw(@, "SenderNotFound")
             ELSE IF InsufficientBalance(s, p.token, p.amount)
                  THEN Throw(@, "InsufficientBalance")
                  ELSE [@ EXCEPT !.pc = "ct_recipient", !.sender = s]]
    /\ UNCHANGED <<users, chain, txs, pendings, now, dispatched, settled, origin, started, pinVars>>

\* the placeholder is not saved before the row is written
RecipientMissing_unsaved == "ct_saveTx"

\* if (!recipient): the placeholder user is created and saved first
RecipientMissing == "ct_saveUser"

\* User.findOne(recipient)
createTransaction_recipient(c) ==
    /\ calls[c].pc = "ct_recipient"
    /\ LET r == UserFindOne(pendings[calls[c].pendingTx].recipientPhone)
       IN calls' = [calls EXCEPT ![c] =
             IF r = 0 THEN [@ EXCEPT !.pc = RecipientMissing]
                      ELSE [@ EXCEPT !.pc = "ct_saveTx", !.recipient = r]]
    /\ UNCHANGED <<users, chain, txs, pendings, now, dispatched, settled, origin, started, pinVars>>

\* recipient.save() of the placeholder user
createTransaction_savePlaceholder(c) ==
    /\ calls[c].pc = "ct_saveUser"
    /\ users' = Append(users,
          [phoneNumber |-> pendings[calls[c].pendingTx].recipientPhone,
           isVerified |-> FALSE, tokenBalances |-> ZeroBalances])
    /\ calls' = [calls EXCEPT ![c].pc = "ct_saveTx", ![c].recipient = Len(users) + 1]
    /\ UNCHANGED <<chain, txs, pendings, now, dispatched, settled, origin, started, pinVars>>

\* the row built from the arguments in another order
NewTransaction_swapped(c) ==
    LET p == pendings[calls[c].pendingTx]
    IN [sender |-> calls[c].recipient, recipient |-> calls[c].sender,
        senderPhone |-> p.recipientPhone, recipientPhone |-> p.senderPhone,
        amount |-> p.amount, token |-> p.token, status |-> "pending",
        signature |-> "none", errorMessage |-> "none"]

\* new TransactionModel({ sender, recipient, senderPhone, recipientPhone,
\* amount, token, status: 'pending' }) from the pending transfer's fields
NewTransaction(c) ==
    LET p == pendings[calls[c].pendingTx]
    IN [sender |-> calls[c].sender, recipient |-> calls[c].recipient,
        senderPhone |-> p.senderPhone, recipientPhone |-> p.recipientPhone,
        amount |-> p.amount, token |-> p.token, status |-> "pending",
        signature |-> "none", errorMessage |-> "none"]

\* transaction.save() of the new row, status pending
createTransaction_save(c) ==
    /\ calls[c].pc = "ct_saveTx"
    /\ txs' = Append(txs, NewTransaction(c))
    /\ dispatched' = Append(dispatched, 0)
    /\ settled' = Append(settled, 0)
    /\ origin' = Append(origin, calls[c].pendingTx)
    /\ calls' = [calls EXCEPT ![c].pc = "ex_find", ![c].transaction = Len(txs) + 1]
    /\ UNCHANGED <<users, chain, pendings, now, started, pinVars>>

----------------------------------------------------------------------------
(* confirmTransaction *)

\* findOne({ senderPhone, confirmationCode: confirmationCode.toUpperCase() })
ConfirmLookup(senderPhone, confirmationCode) ==
    PendingFindOne(senderPhone, ToUpperCase(confirmationCode))

confirmTransaction(c, senderPhone, confirmationCode) ==
    /\ Free(c)
    /\ started' = started + 1
    /\ LET p == ConfirmLookup(senderPhone, confirmationCode)
       IN /\ p # 0 => Len(txs) + Reserved < MaxTx
          /\ calls' = [calls EXCEPT ![c] =
                IF p = 0
                THEN Throw(IdleCall, "NoSuchPending")
                ELSE [IdleCall EXCEPT !.pc = "ct_sender", !.op = "confirm",
                                      !.pendingTx = p]]
    /\ UNCHANGED <<users, chain, txs, pendings, now, dispatched, settled, origin, pinVars>>

\* pendingTx.remove()
confirmTransaction_remove(c) ==
    /\ calls[c].pc = "cf_remove"
    /\ pendings' = [pendings EXCEPT ![calls[c].pendingTx].live = FALSE]
    /\ calls' = [calls EXCEPT ![c] = Throw(@, "none")]
    /\ UNCHANGED <<users, chain, txs, now, dispatched, settled, origin, started, pinVars>>

----------------------------------------------------------------------------
(* executeTransaction.  The `!sender || !recipient` branch (line 379) is    *)
(* unreachable: no operation of the module deletes a user.                  *)

\* the status check left out
AlreadySettled_unchecked(status) == FALSE

\* transaction.status !== 'pending'
AlreadySettled(status) == status # "pending"

\* TransactionModel.findById and the status check
ExecuteFind(call, id) ==
    IF id > Len(txs)
    THEN [call EXCEPT !.pc = "ex_catch", !.error = "TransactionNotFound"]
    ELSE IF AlreadySettled(txs[id].status)
         THEN [call EXCEPT !.pc = "ex_catch", !.transaction = id,
                           !.seen = txs[id].status, !.error = "AlreadySettled"]
         ELSE [call EXCEPT !.pc = "ex_dispatch", !.transaction = id,
                           !.seen = txs[id].status]

\* a direct call of executeTransaction(transactionId)
executeTransaction(c, transactionId) ==
    /\ Free(c)
    /\ started' = started + 1
    /\ calls' = [calls EXCEPT ![c] =
          ExecuteFind([IdleCall EXCEPT !.op = "execute"], transactionId)]
    /\ UNCHANGED <<users, chain, txs, pendings, now, dispatched, settled, origin, pinVars>>

\* executeTransaction(transaction._id) called by confirmTransaction
executeTransaction_find(c) ==
    /\ calls[c].pc = "ex_find"
    /\ calls' = [calls EXCEPT ![c] = ExecuteFind(@, @.transaction)]
    /\ UNCHANGED <<users, chain, txs, pendings, now, dispatched, settled, origin, started, pinVars>>

\* walletUtils.decryptWallet(sender.encryptedWalletKey) throws
decryptWallet_throws(c) ==
    /\ calls[c].pc = "ex_dispatch"
    /\ calls' = [calls EXCEPT ![c].pc = "ex_catch", ![c].error = "KeyCorruption"]
    /\ UNCHANGED <<users, chain, txs, pendings, now, dispatched, settled, origin, started, pinVars>>

\* the settlement call not awaited: the status is written at once
AwaitSettlement_skipped == "ex_save"

\* where the call waits once the settlement call is dispatched
AwaitSettlement == "ex_settle"

Dispatch(c) ==
    /\ dispatched' = [dispatched EXCEPT ![calls[c].transaction] = @ + 1]
    /\ calls' = [calls EXCEPT ![c].pc = AwaitSettlement, ![c].sent = TRUE]
    /\ UNCHANGED <<users, chain, txs, pendings, now, settled, origin, started, pinVars>>

transferSol(c) ==
    /\ calls[c].pc = "ex_dispatch"
    /\ txs[calls[c].transaction].token = "SOL"
    /\ Dispatch(c)

transferToken(c) ==
    /\ calls[c].pc = "ex_dispatch"
    /\ txs[calls[c].transaction].token # "SOL"
    /\ Dispatch(c)

\* sendAndConfirmTransaction resolves with a signature: the funds have moved
sendAndConfirmTransaction_ok(c) ==
    /\ calls[c].pc = "ex_settle"
    /\ LET t == txs[calls[c].transaction]
       IN /\ chain[t.sender][t.token] >= t.amount
          /\ chain' = IF t.sender = t.recipient THEN chain
                      ELSE [chain EXCEPT ![t.sender][t.token] = @ - t.amount,
                                         ![t.recipient][t.token] = @ + t.amount]
    /\ settled' = [settled EXCEPT ![calls[c].transaction] = @ + 1]
    /\ calls' = [calls EXCEPT ![c].pc = "ex_save"]
    /\ UNCHANGED <<users, txs, pendings, now, dispatched, origin, started, pinVars>>

\* sendAndConfirmTransaction rejects with an error of the given kind; the
\* catch of transferSol / transferToken logs it and rethrows it as it is
sendAndConfirmTransaction_rejects(c, kind) ==
    /\ calls[c].pc = "ex_settle"
    /\ calls' = [calls EXCEPT ![c].pc = "ex_catch", ![c].error = kind]
    /\ UNCHANGED <<users, chain, txs, pendings, now, dispatched, settled, origin, started, pinVars>>

\* sendAndConfirmTransaction rejects: network error, rejected transaction
sendAndConfirmTransaction_fails(c) ==
    sendAndConfirmTransaction_rejects(c, "SettlementFailed")

\* status = 'completed', signature, completedAt; transaction.save()
executeTransaction_saveCompleted(c) ==
    /\ calls[c].pc = "ex_save"
    /\ txs' = [txs EXCEPT ![calls[c].transaction].status = "completed",
                          ![calls[c].transaction].signature = "sig"]
    /\ calls' = [calls EXCEPT ![c].pc = "ub_sol", ![c].who = "sender"]
    /\ UNCHANGED <<users, chain, pendings, now, dispatched, settled, origin, started, pinVars>>

\* the catch block: findById, status = 'failed', errorMessage, save; rethrow
executeTransaction_catch(c) ==
    /\ calls[c].pc = "ex_catch"
    /\ txs' = IF calls[c].transaction = 0 THEN txs
              ELSE [txs EXCEPT ![calls[c].transaction].status = "failed",
                               ![calls[c].transaction].errorMessage = calls[c].error]
    /\ calls' = [calls EXCEPT ![c] = Throw(@, @.error)]
    /\ UNCHANGED <<users, chain, pendings, now, dispatched, settled, origin, started, pinVars>>

----------------------------------------------------------------------------
(* updateUserBalances, run inside executeTransaction *)

Target(c) ==
    IF calls[c].who = "sender" THEN txs[calls[c].transaction].sender
                               ELSE txs[calls[c].transaction].recipient

\* decryptWallet or the native getBalance read throws: updateUserBalances rethrows
updateUserBalances_throws(c) ==
    /\ calls[c].pc = "ub_sol"
    /\ calls' = [calls EXCEPT ![c].pc = "ex_catch", ![c].who = "none",
                              ![c].error = "BalanceUpdateFailed"]
    /\ UNCHANGED <<users, chain, txs, pendings, now, dispatched, settled, origin, started, pinVars>>

\* checkTokenBalance(publicKey, 'SOL')
updateUserBalances_sol(c) ==
    /\ calls[c].pc = "ub_sol"
    /\ calls' = [calls EXCEPT ![c].pc = "ub_tok", ![c].sol = chain[Target(c)]["SOL"]]
    /\ UNCHANGED <<users, chain, txs, pendings, now, dispatched, settled, origin, started, pinVars>>

\* checkTokenBalance(publicKey, token): the balance, or 0 when the read fails
checkTokenBalance(u, token, readOk) ==
    IF readOk THEN chain[u][token] ELSE 0

\* the loop over the supported tokens, with the outcome of the read
updateUserBalances_read(c, readOk) ==
    /\ calls[c].pc = "ub_tok"
    /\ calls' = [calls EXCEPT ![c].pc = "ub_save",
                    ![c].tok = checkTokenBalance(Target(c), supportedTokens[1], readOk)]
    /\ UNCHANGED <<users, chain, txs, pendings, now, dispatched, settled, origin, started, pinVars>>

updateUserBalances_token(c) ==
    \E readOk \in BOOLEAN : updateUserBalances_read(c, readOk)

\* user.save(); then the next user, or return
updateUserBalances_save(c) ==
    /\ calls[c].pc = "ub_save"
    /\ users' = [users EXCEPT ![Target(c)].tokenBalances =
                    [t \in Tokens |-> IF t = "SOL" THEN calls[c].sol ELSE calls[c].tok]]
    /\ calls' = [calls EXCEPT ![c] =
          IF @.who = "sender"
          THEN [@ EXCEPT !.pc = "ub_sol", !.who = "recipient", !.sol = 0, !.tok = 0]
          ELSE IF @.op = "confirm"
               THEN [@ EXCEPT !.pc = "cf_remove", !.who = "none", !.sol = 0, !.tok = 0]
               ELSE Throw(@, "none")]
    /\ UNCHANGED <<chain, txs, pendings, now, dispatched, settled, origin, started, pinVars>>

----------------------------------------------------------------------------
Next ==
    \/ Tick
    \/ \E s \in Senders, r \in Phones, a \in Amounts, t \in Tokens, k \in Codes :
          s # r /\ createPendingTransaction(s, r, a, t, k)
    \/ \E c \in Calls, s \in Phones, k \in InputCodes : confirmTransaction(c, s, k)
    \/ \E c \in Calls, id \in 1..MaxTx : executeTransaction(c, id)
    \/ \E c \in Calls :
          \/ createTransaction_sender(c)
          \/ createTransaction_recipient(c)
          \/ createTransaction_savePlaceholder(c)
          \/ createTransaction_save(c)
          \/ executeTransaction_find(c)
          \/ decryptWallet_throws(c)
          \/ transferSol(c)
          \/ transferToken(c)
          \/ sendAndConfirmTransaction_ok(c)
          \/ sendAndConfirmTransaction_fails(c)
          \/ executeTransaction_saveCompleted(c)
          \/ executeTransaction_catch(c)
          \/ updateUserBalances_throws(c)
          \/ updateUserBalances_sol(c)
          \/ updateUserBalances_token(c)
          \/ updateUserBalances_save(c)
          \/ confirmTransaction_remove(c)

Spec == Init /\ [][Next]_vars

----------------------------------------------------------------------------
(* Wider inputs.  Spec keeps the inputs of the service to one sender, one   *)
(* amount and one kind of settlement error; the specifications below add,   *)
(* each to the actions of Spec, one more kind of input.                     *)

MalformedAmounts == {0}
SettlementErrors == {"SettlementTransient", "SettlementRejected"}

\* a proposal whose amount is zero
ProposeMalformed ==
    \E s \in Senders, r \in Phones, a \in MalformedAmounts, t \in Tokens, k \in Codes :
        s # r /\ createPendingTransaction(s, r, a, t, k)

SpecMalformed == Init /\ [][Next \/ ProposeMalformed]_vars

\* a proposal by an identity other than the registered one
ProposeAnySender ==
    \E s \in Phones \ Senders, r \in Phones, a \in Amounts, t \in Tokens, k \in Codes :
        s # r /\ createPendingTransaction(s, r, a, t, k)

SpecAnySender == Init /\ [][Next \/ ProposeAnySender]_vars

\* the settlement call fails with a network error or timeout, or the ledger
\* rejects the transaction
SettlementFailsAs ==
    \E c \in Calls, kind \in SettlementErrors : sendAndConfirmTransaction_rejects(c, kind)

SpecRetry == Init /\ [][Next \/ SettlementFailsAs]_vars

\* Confirmation codes: proposals with generated strings of other letters and
\* of digits, and confirms with every code a sender can type.  Only the
\* lookup of confirmTransaction is followed, not the calls it goes on to make.
RandomStrings == {"ab", "a1", "cd"}

\* the stored code in every letter case, and codes with another letter or digit
CodeInputs == {"ab", "aB", "Ab", "AB", "a1", "A1", "cd", "CD"}

ProposeAnyCode ==
    \E s \in Senders, r \in Phones, a \in Amounts, t \in Tokens, k \in RandomStrings :
        s # r /\ createPendingTransaction(s, r, a, t, k)

ConfirmAnyCode ==
    \E c \in Calls, s \in Phones, k \in CodeInputs : confirmTransaction(c, s, k)

SpecCodes == Init /\ [][ProposeAnyCode \/ ConfirmAnyCode]_vars

\* Codes of several senders: proposals by both identities, confirms by both
\* with every code, followed through createTransaction to the stored row.
IssueTransaction ==
    \E c \in Calls :
        \/ createTransaction_sender(c)
        \/ createTransaction_recipient(c)
        \/ createTransaction_savePlaceholder(c)
        \/ createTransaction_save(c)

SpecBinding ==
    Init /\ [][ProposeAnyCode \/ ProposeAnySender \/ ConfirmAnyCode \/ IssueTransaction]_vars

\* Reconciliation without failures: the actions of Spec with the codes of
\* SpecCodes, so that two pending transfers of one sender can be confirmed at
\* the same time, except that no read of the settlement layer fails inside
\* updateUserBalances.
NextReadsOk ==
    \/ Tick
    \/ ProposeAnyCode
    \/ ConfirmAnyCode
    \/ IssueTransaction
    \/ \E c \in Calls, id \in 1..MaxTx : executeTransaction(c, id)
    \/ \E c \in Calls :
          \/ executeTransaction_find(c)
          \/ decryptWallet_throws(c)
          \/ transferSol(c)
          \/ transferToken(c)
          \/ sendAndConfirmTransaction_ok(c)
          \/ sendAndConfirmTransaction_fails(c)
          \/ executeTransaction_saveCompleted(c)
          \/ executeTransaction_catch(c)
          \/ updateUserBalances_sol(c)
          \/ updateUserBalances_read(c, TRUE)
          \/ updateUserBalances_save(c)
          \/ confirmTransaction_remove(c)

SpecReadsOk == Init /\ [][NextReadsOk]_vars

\* Cancellation (the sender answers NO) is handled by the controller, which is
\* not among the sources; as documented it deletes the sender's registry
\* entry.  cancelled records that a cancel deleted the entry.
cancelTransfer(senderPhone) ==
    /\ \E p \in 1..Len(pendings) :
          pendings[p].live /\ pendings[p].senderPhone = senderPhone
    /\ pendings' = [p \in 1..Len(pendings) |->
                      IF pendings[p].live /\ pendings[p].senderPhone = senderPhone
                      THEN [pendings[p] EXCEPT !.live = FALSE, !.cancelled = TRUE]
                      ELSE pendings[p]]
    /\ UNCHANGED <<users, chain, txs, now, calls, dispatched, settled, origin, started, pinVars>>

Cancel == \E s \in Phones : cancelTransfer(s)

SpecCancel == Init /\ [][Next \/ Cancel]_vars

----------------------------------------------------------------------------
(* PIN verification and account lockout.  The controller and the User model *)
(* that implement them are not among the sources; the sources only state    *)
(* the threshold.  The actions follow the documented behaviour: a mismatch  *)
(* increments the counter of the account, reaching the threshold locks it,  *)
(* a locked account rejects every attempt, a match resets the counter, and  *)
(* an unlock clears it.                                                     *)

\* no account is ever locked
IsLocked_never(phone) == FALSE

IsLocked(phone) == failedPin[phone] >= PIN_THRESHOLD

\* one authorization attempt of an identity; pinOk: the typed PIN matches
verifyPin(phone, pinOk) ==
    /\ UserFindOne(phone) # 0
    /\ pinResult.n < MaxAttempts
    /\ LET result == IF IsLocked(phone) THEN "AccountLocked"
                      ELSE IF pinOk THEN "ok" ELSE "AuthError"
       IN /\ pinResult' = [n |-> pinResult.n + 1, phone |-> phone,
                           pinOk |-> pinOk, result |-> result]
          /\ failedPin' = [failedPin EXCEPT ![phone] =
                             CASE result = "ok" -> 0
                               [] result = "AuthError" -> @ + 1
                               [] OTHER -> @]
    /\ wrongStreak' = [wrongStreak EXCEPT ![phone] =
                         IF @ >= PIN_THRESHOLD THEN @
                         ELSE IF pinOk THEN 0 ELSE @ + 1]
    /\ UNCHANGED <<users, chain, txs, pendings, now, calls, dispatched, settled,
                   origin, started>>

\* the explicit unlock path clears the counter
unlock(phone) ==
    /\ failedPin[phone] > 0
    /\ failedPin' = [failedPin EXCEPT ![phone] = 0]
    /\ wrongStreak' = [wrongStreak EXCEPT ![phone] = 0]
    /\ UNCHANGED <<users, chain, txs, pendings, now, calls, dispatched, settled,
                   origin, started, pinResult>>

\* two registered accounts
InitPin ==
    /\ PinInit
    /\ users = [i \in 1..2 |->
                  [phoneNumber |-> IF i = 1 THEN "p1" ELSE "p2", isVerified |-> TRUE,
                   tokenBalances |-> [t \in Tokens |-> Min(InitBalances)]]]
    /\ chain = [u \in 1..MaxUsers |->
                  IF u <= 2 THEN [t \in Tokens |-> Min(InitBalances)] ELSE ZeroBalances]
    /\ txs = << >>
    /\ pendings = << >>
    /\ now = 0
    /\ calls = [c \in Calls |-> IdleCall]
    /\ dispatched = << >>
    /\ settled = << >>
    /\ origin = << >>
    /\ started = 0

NextPin ==
    \/ \E phone \in Phones, pinOk \in BOOLEAN : verifyPin(phone, pinOk)
    \/ \E phone \in Phones : unlock(phone)

SpecPin == InitPin /\ [][NextPin]_vars

----------------------------------------------------------------------------
(* Properties *)

TxIds == 1..Len(txs)
PendingIds == 1..Len(pendings)
Terminal == {"completed", "failed"}
InFlight(c) == calls[c].pc \notin {"idle", "done"}
TxFrom(p) == {t \in TxIds : origin[t] = p}

\* C1: of the concurrent confirmTransaction calls that name one PendingTransfer,
\* only one proceeds to createTransaction: no two calls in flight have both
\* matched the same pending transfer.
C1_OnlyOneConcurrentConfirmProceeds ==
    \A c, d \in Calls :
        (c # d /\ InFlight(c) /\ InFlight(d) /\ calls[c].pendingTx # 0)
            => calls[c].pendingTx # calls[d].pendingTx

\* C2: once a Transaction is completed or failed, no step changes its status,
\* its settlement reference or its error detail.
C2_TerminalTransactionFrozen ==
    [][\A t \in TxIds :
          txs[t].status \in Terminal =>
             /\ txs'[t].status = txs[t].status
             /\ txs'[t].signature = txs[t].signature
             /\ txs'[t].errorMessage = txs[t].errorMessage]_vars

\* C3: an executeTransaction call that finds its Transaction completed or failed
\* is rejected with the already-settled error and has dispatched no settlement
\* call, neither while it handles the error nor when it has returned.
C3_SettledIsRejectedWithoutDispatch ==
    \A c \in Calls :
        calls[c].seen \in Terminal =>
            /\ calls[c].error = "AlreadySettled"
            /\ ~calls[c].sent
            /\ calls[c].pc \in {"ex_catch", "done"}

C3_Witness ==
    \E c \in Calls : /\ calls[c].pc = "done"
                     /\ calls[c].seen = "completed"
                     /\ calls[c].error = "AlreadySettled"

\* C4: a confirmTransaction call never matches a PendingTransfer whose
\* expires-at lies before the time of the call.
C4_ExpiredIsNeverMatched ==
    [][\A c \in Calls :
          (calls'[c].pendingTx # 0 /\ calls[c].pc \in {"idle", "done"}
             /\ calls'[c].pc = "ct_sender")
            => now <= pendings[calls'[c].pendingTx].expiresAt]_vars

\* C5: a failure of updateUserBalances is never what a confirm/execute call
\* returns and is never recorded on the Transaction, which stays completed.
C5_ReconcileFailureLeavesCompleted ==
    /\ \A c \in Calls :
          calls[c].pc = "done" => calls[c].error # "BalanceUpdateFailed"
    /\ \A t \in TxIds : txs[t].errorMessage # "BalanceUpdateFailed"

\* C6: every completed Transaction has a settlement reference and no error
\* detail, every failed Transaction an error detail and no settlement reference.
C6_ExactlyOneResultField ==
    \A t \in TxIds :
        /\ txs[t].status = "completed" =>
              (txs[t].signature # "none" /\ txs[t].errorMessage = "none")
        /\ txs[t].status = "failed" =>
              (txs[t].errorMessage # "none" /\ txs[t].signature = "none")

\* C7: when a confirm call that matched a PendingTransfer has returned, that
\* PendingTransfer is gone, and no PendingTransfer yields two Transactions.
C7_ConfirmConsumesPending ==
    /\ \A c \in Calls :
          (calls[c].pc = "done" /\ calls[c].pendingTx # 0)
             => ~pendings[calls[c].pendingTx].live
    /\ \A p \in PendingIds : Cardinality(TxFrom(p)) <= 1

Active(p) == pendings[p].live /\ now <= pendings[p].expiresAt

\* C8: a sender never has two active (stored, unexpired) PendingTransfers, so
\* an earlier proposal cannot be confirmed once a later one is stored.
C8_OneActivePendingPerSender ==
    \A p, q \in PendingIds :
        (p # q /\ Active(p) /\ Active(q))
            => pendings[p].senderPhone # pendings[q].senderPhone

\* C9: a settlement call is dispatched only for a stored Transaction row, and a
\* Transaction is completed (or carries a settlement reference) only after a
\* settlement call dispatched for it has returned a reference.
C9_CompletedOnlyAfterSettlement ==
    /\ \A c \in Calls : calls[c].sent => calls[c].transaction \in TxIds
    /\ \A t \in TxIds :
          /\ settled[t] <= dispatched[t]
          /\ (txs[t].status = "completed" \/ txs[t].signature # "none")
                => settled[t] >= 1

C9_Witness ==
    \E t \in TxIds : /\ txs[t].status = "completed"
                     /\ dispatched[t] = 1
                     /\ settled[t] = 1

\* the sender's cached balance of the asset is lower than the amount
BalanceShort(c) ==
    LET p == pendings[calls[c].pendingTx]
        s == UserFindOne(p.senderPhone)
    IN s # 0 /\ users[s].tokenBalances[p.token] < p.amount

\* C10: when createTransaction reads a cached sender balance lower than the
\* amount, the call ends with the insufficient-funds error in that step: no
\* Transaction row, no placeholder and no settlement call.
C10_InsufficientFundsBeforeAnyWrite ==
    [][\A c \in Calls :
          (calls[c].pc = "ct_sender" /\ BalanceShort(c) /\ calls'[c] # calls[c])
            => /\ calls'[c].pc = "done"
               /\ calls'[c].error = "InsufficientBalance"
               /\ calls'[c].transaction = 0
               /\ ~calls'[c].sent
               /\ txs' = txs
               /\ users' = users
               /\ dispatched' = dispatched]_vars

C10_Witness ==
    \E c \in Calls : /\ calls[c].pc = "done"
                     /\ calls[c].error = "InsufficientBalance"
                     /\ calls[c].pendingTx # 0

\* C11: a proposal for an amount greater than the sender's cached balance of
\* the asset stores no PendingTransfer: every step that adds a pending transfer
\* adds one whose amount the sender's cached balance covers.
C11_ProposalAboveBalanceStoresNothing ==
    [][Len(pendings') > Len(pendings) =>
          LET p == pendings'[Len(pendings')]
              s == UserFindOne(p.senderPhone)
          IN s # 0 /\ users[s].tokenBalances[p.token] >= p.amount]_vars

ToLowerCase(s) ==
    CASE s = "AB" -> "ab"
      [] s = "aB" -> "ab"
      [] s = "Ab" -> "ab"
      [] s = "A1" -> "a1"
      [] s = "CD" -> "cd"
      [] OTHER -> s

SameIgnoringCase(a, b) == ToLowerCase(a) = ToLowerCase(b)

\* C17: in every reachable store and for every sender and typed code, the
\* lookup of confirmTransaction returns a stored pending transfer of that
\* sender whose code equals the typed one up to letter case, and returns none
\* only when the sender has no such pending transfer.
C17_CodeMatchIgnoresCaseOnly ==
    \A s \in Phones, k \in CodeInputs :
        LET m == ConfirmLookup(s, k)
        IN /\ m # 0 => /\ pendings[m].live
                       /\ pendings[m].senderPhone = s
                       /\ SameIgnoringCase(k, pendings[m].confirmationCode)
           /\ m = 0 => \A p \in PendingIds :
                          ~(/\ pendings[p].live
                            /\ pendings[p].senderPhone = s
                            /\ SameIgnoringCase(k, pendings[p].confirmationCode))

C17_Witness ==
    \E c \in Calls :
        /\ calls[c].pc = "ct_sender"
        /\ LET p == calls[c].pendingTx
           IN /\ pendings[p].live
              /\ pendings[p].confirmationCode = "A1"
              /\ ConfirmLookup(pendings[p].senderPhone, "a1") = p
              /\ ConfirmLookup(pendings[p].senderPhone, "A1") = p
              /\ ConfirmLookup(pendings[p].senderPhone, "ab") = 0

\* C18: in every reachable state every Transaction carries the sender,
\* recipient, asset and amount of the PendingTransfer it was created from;
\* pending transfers keep their fields, so the four fields never change.
C18_TransactionCarriesPendingFields ==
    \A t \in TxIds :
        LET p == pendings[origin[t]]
        IN /\ txs[t].senderPhone = p.senderPhone
           /\ txs[t].recipientPhone = p.recipientPhone
           /\ txs[t].token = p.token
           /\ txs[t].amount = p.amount
           /\ users[txs[t].sender].phoneNumber = p.senderPhone
           /\ users[txs[t].recipient].phoneNumber = p.recipientPhone

C18_Witness ==
    \E t \in TxIds : /\ txs[t].status = "completed"
                     /\ txs[t].senderPhone = pendings[origin[t]].senderPhone
                     /\ txs[t].amount = pendings[origin[t]].amount

\* C19: every Transaction row references a stored sender Account and a stored
\* recipient Account of its own, and a createTransaction call about to write
\* the row already holds a stored recipient Account.
C19_RowReferencesStoredAccounts ==
    /\ \A t \in TxIds :
          /\ txs[t].sender \in 1..Len(users)
          /\ txs[t].recipient \in 1..Len(users)
          /\ txs[t].recipient # txs[t].sender
          /\ users[txs[t].sender].phoneNumber = txs[t].senderPhone
          /\ users[txs[t].recipient].phoneNumber = txs[t].recipientPhone
    /\ \A c \in Calls :
          calls[c].pc = "ct_saveTx" => calls[c].recipient \in 1..Len(users)

C19_Witness ==
    \E t \in TxIds : /\ txs[t].recipient \in 1..Len(users)
                     /\ ~users[txs[t].recipient].isVerified

\* C20: balance reconciliation runs only for a Transaction whose settlement was
\* acknowledged and recorded, and every step that ends the sender's
\* reconciliation, failed or not, starts the recipient's.
C20_RecipientReconciledAfterSender ==
    [][\A c \in Calls :
          /\ calls'[c].who # "none" =>
                /\ settled'[calls'[c].transaction] >= 1
                /\ txs'[calls'[c].transaction].signature # "none"
          /\ (calls[c].who = "sender" /\ calls'[c].who # "sender") =>
                /\ calls'[c].who = "recipient"
                /\ calls'[c].pc = "ub_sol"]_vars

\* C16: an authorization attempt on an identity that has had PIN_THRESHOLD wrong
\* attempts in a row since its last unlock is rejected with the account-locked
\* error whatever the PIN; an attempt on an identity below the threshold is
\* answered on its PIN alone, and changes no other identity's counter.
C16_LockedAfterThresholdPerIdentity ==
    [][pinResult'.n > pinResult.n =>
          LET p == pinResult'.phone
          IN /\ wrongStreak[p] >= PIN_THRESHOLD
                   => pinResult'.result = "AccountLocked"
             /\ wrongStreak[p] < PIN_THRESHOLD
                   => pinResult'.result = IF pinResult'.pinOk THEN "ok" ELSE "AuthError"
             /\ \A q \in Phones \ {p} : failedPin'[q] = failedPin[q]]_vars

C16_Witness ==
    /\ pinResult.result = "AccountLocked"
    /\ pinResult.pinOk
    /\ \E q \in Phones : q # pinResult.phone /\ ~IsLocked(q)

\* C12: a transfer with a malformed amount mutates nothing: no PendingTransfer
\* holds such an amount, no createTransaction call works on one (so none
\* stores a placeholder for it), and no Transaction row carries one.
C12_MalformedTransferMutatesNothing ==
    /\ \A p \in PendingIds : pendings[p].amount \notin MalformedAmounts
    /\ \A c \in Calls : calls[c].pendingTx # 0 =>
          pendings[calls[c].pendingTx].amount \notin MalformedAmounts
    /\ \A t \in TxIds : txs[t].amount \notin MalformedAmounts

\* C13: an executeTransaction call on a Transaction whose recorded failure is a
\* network error or timeout is accepted and goes on to dispatch settlement, and
\* a Transaction whose recorded failure is a rejection is never dispatched again.
C13_TransientFailureIsRetryable ==
    [][\A t \in TxIds :
          /\ txs[t].errorMessage = "SettlementTransient" =>
                \A c \in Calls :
                    (/\ started' # started
                     /\ calls'[c] # calls[c]
                     /\ calls'[c].op = "execute"
                     /\ calls'[c].transaction = t) => calls'[c].pc = "ex_dispatch"
          /\ txs[t].errorMessage = "SettlementRejected" =>
                dispatched'[t] = dispatched[t]]_vars

\* C14: the sender Account of every Transaction row is a verified one.
C14_SenderOfEveryTransactionIsVerified ==
    \A t \in TxIds : users[txs[t].sender].isVerified

\* C15: a PendingTransfer is never both cancelled and the origin of a
\* Transaction: a cancel that deleted the entry leaves no Transaction created
\* from it, before or after.
C15_CancelAndConfirmExclusive ==
    \A p \in PendingIds : pendings[p].cancelled => TxFrom(p) = {}

\* walletUtils.decryptWallet(sender.encryptedWalletKey) in executeTransaction:
\* the step in which a call leaves the point before the transfer call
DecryptsForSigning(c) ==
    calls[c].pc = "ex_dispatch" /\ calls'[c].pc # "ex_dispatch"

\* walletUtils.decryptWallet(user.encryptedWalletKey) in updateUserBalances:
\* the step in which the wallet is opened and the native balance is read
DecryptsForBalances(c) ==
    calls[c].pc = "ub_sol" /\ calls'[c].pc = "ub_tok"

\* C21: every step that decrypts a wallet key is a step of an execution that
\* has loaded its stored Transaction row and goes on to the settlement call (or
\* to the error handler when the decryption throws); no reconciliation step
\* decrypts a key.
C21_KeyDecryptedOnlyForSigning ==
    [][\A c \in Calls :
          (DecryptsForSigning(c) \/ DecryptsForBalances(c)) =>
              /\ calls[c].pc = "ex_dispatch"
              /\ calls[c].transaction \in TxIds
              /\ calls'[c].pc \in {AwaitSettlement, "ex_catch"}]_vars

\* C23: a Transaction that has not failed has had at most one settlement call
\* dispatched, whatever the interleaving of the calls that execute it.
C23_OneDispatchPerTransaction ==
    \A t \in TxIds : txs[t].status # "failed" => dispatched[t] <= 1

\* C24: a Transaction whose status is failed has had no settlement call that
\* returned a settlement reference.
C24_FailedMeansNothingSettled ==
    \A t \in TxIds : txs[t].status = "failed" => settled[t] = 0

\* C25: when a call that started executing a pending Transaction returns, the
\* Transaction is terminal: completed when the settlement call of this call
\* succeeded, failed with the error recorded when the key decryption or the
\* settlement call failed, and without a dispatch when the decryption failed.
C25_ExecutionEndsTerminal ==
    [][\A c \in Calls :
          (/\ calls[c].pc \notin {"idle", "done"}
           /\ calls'[c].pc = "done"
           /\ calls[c].seen = "pending") =>
             LET t == calls[c].transaction
                 e == calls'[c].error
             IN /\ txs'[t].status \in Terminal
                /\ e \in {"none", "BalanceUpdateFailed"} => txs'[t].status = "completed"
                /\ e \in {"KeyCorruption", "SettlementFailed"} =>
                      /\ txs'[t].status = "failed"
                      /\ txs'[t].errorMessage = e
                /\ e = "KeyCorruption" => ~calls'[c].sent]_vars

\* C26: the cached balance of a token that no settled Transaction has moved for
\* an Account equals the ledger balance, the only value a successful read can
\* return: a failed read never replaces it with another value.
C26_CacheHoldsOnlyReadValues ==
    \A u \in 1..Len(users) : \A k \in 1..Len(supportedTokens) :
        LET token == supportedTokens[k]
        IN (\A t \in TxIds : ~(/\ txs[t].token = token
                               /\ settled[t] > 0
                               /\ u \in {txs[t].sender, txs[t].recipient}))
              => users[u].tokenBalances[token] = chain[u][token]

\* C22: every confirmTransaction(B, code) step leaves all pending transfers as
\* they are and matches only a pending transfer whose sender is B, and the
\* Transaction a call stores has the sender of the pending transfer it matched.
C22_CodeBoundToItsSender ==
    [][/\ \A c \in Calls, B \in Phones, k \in CodeInputs :
             confirmTransaction(c, B, k) =>
                /\ pendings' = pendings
                /\ calls'[c].pendingTx # 0 =>
                      pendings[calls'[c].pendingTx].senderPhone = B
       /\ \A c \in Calls :
             (calls[c].pc = "ct_saveTx" /\ calls'[c].pc # "ct_saveTx") =>
                txs'[Len(txs')].senderPhone = pendings[calls[c].pendingTx].senderPhone]_vars

C22_Witness ==
    \E c \in Calls :
        /\ calls[c].transaction # 0
        /\ \E q \in PendingIds :
              /\ q # calls[c].pendingTx
              /\ pendings[q].live
              /\ pendings[q].senderPhone # pendings[calls[c].pendingTx].senderPhone
              /\ pendings[q].confirmationCode = pendings[calls[c].pendingTx].confirmationCode

\* C27: when no call is in flight and no reconciliation read has failed, the
\* cached balances of every Account equal its balances on the settlement layer.
C27_CacheConsistentWhenQuiescent ==
    (\A c \in Calls : Returned(c)) =>
        \A u \in 1..Len(users) :
            \A token \in Tokens : users[u].tokenBalances[token] = chain[u][token]

\* C28: no two stored Accounts have the same phone number, and the recipient
\* of every Transaction is the Account found for its recipient phone number.
C28_OneAccountPerIdentity ==
    /\ \A u, v \in 1..Len(users) :
          users[u].phoneNumber = users[v].phoneNumber => u = v
    /\ \A t \in TxIds : txs[t].recipient = UserFindOne(txs[t].recipientPhone)

====
